---- MODULE Spec2Model ----
(***************************************************************************)
(* Model of main.py: the pipeline service's DAG check (is_dag, a          *)
(* three-colour depth-first search over an adjacency dict) and its two    *)
(* endpoints, /pipelines/parse and /pipelines/validate.                   *)
(*                                                                         *)
(* Two views of the same code are given.  The functional view computes a  *)
(* whole call as an operator (is_dag, parse_pipeline, validate_pipeline). *)
(* The stepwise view runs the same code one statement group at a time,    *)
(* with an explicit call stack, for one or two requests served by         *)
(* separate threads.                                                      *)
(***************************************************************************)
EXTENDS Integers, Sequences, FiniteSets, TLC

\* ------------------------------------------------------------------ bounds
MaxNodes == 3        \* longest submitted node array (functional view)
MaxEdges == 2        \* longest submitted edge array (functional view)
MaxOdd == 1          \* longest array holding records that fail validation

\* Node ids that submissions draw from.
Ids == {"a", "b", "c"}
OddIds == {"a", "b"}
Types == {"customInput", "llm"}

\* main.py:60   WHITE, GRAY, BLACK = 0, 1, 2
WHITE == 0
GRAY == 1
BLACK == 2

SeqsUpTo(S, n) == UNION {[1..k -> S] : k \in 0..n}

\* ------------------------------------------------------------- the records
\* A decoded node or edge object.  valid says whether Node(**node) /
\* Edge(**edge) accepts it (every required field present and well typed).
NodeType(i) == IF i = "a" THEN "customInput" ELSE "llm"
WellNodes == {[id |-> i, type |-> NodeType(i), valid |-> TRUE] : i \in Ids}
WellEdges == {[source |-> s, target |-> t, valid |-> TRUE] : s \in Ids, t \in Ids}
OddNodes == [id : OddIds, type : Types, valid : BOOLEAN]
OddEdges == [source : OddIds, target : OddIds, valid : BOOLEAN]

\* The form field: text that is not JSON, JSON that is not an object, or
\* an object with its nodes and edges arrays.
WellFormed ==
    {[json |-> "object", nodes |-> n, edges |-> e] :
        n \in SeqsUpTo(WellNodes, MaxNodes), e \in SeqsUpTo(WellEdges, MaxEdges)}
OddRecords ==
    {[json |-> "object", nodes |-> n, edges |-> e] :
        n \in SeqsUpTo(OddNodes, MaxOdd), e \in SeqsUpTo(OddEdges, MaxOdd)}
NotObjects ==
    {[json |-> j, nodes |-> <<>>, edges |-> <<>>] : j \in {"invalid", "nonobject"}}

\* ------------------------------------------------------------ dict helpers
\* d[k] = v on a Python dict: the key is added when absent.
DictSet(d, k, v) == [x \in (DOMAIN d) \cup {k} |-> IF x = k THEN v ELSE d[x]]
\* d.get(k, default)
DictGet(d, k, default) == IF k \in DOMAIN d THEN d[k] ELSE default

NodeIds(nodes) == {nodes[i].id : i \in 1..Len(nodes)}

\* A call's outcome: a returned value, or a raised exception.
Ret(v) == [raised |-> "none", value |-> v]
Raise(e) == [raised |-> e, value |-> FALSE]

\* ------------------------------------------------------ is_dag, functional
\* main.py:56   if edge.source in graph
KeepsEdgeNoSelfLoop(graph, edge) ==
    edge.source \in DOMAIN graph /\ edge.source # edge.target
KeepsEdge(graph, edge) == edge.source \in DOMAIN graph

RECURSIVE add_edges(_, _, _)
add_edges(graph, edges, i) ==
    IF i > Len(edges) THEN graph
    ELSE add_edges(
            IF KeepsEdge(graph, edges[i])
            THEN [graph EXCEPT ![edges[i].source] = Append(@, edges[i].target)]
            ELSE graph,
            edges, i + 1)

\* main.py:53-57
build_graph(nodes, edges) == add_edges([id \in NodeIds(nodes) |-> <<>>], edges, 1)
\* main.py:61
init_state(nodes) == [id \in NodeIds(nodes) |-> WHITE]

\* main.py:74   state[neighbor] == GRAY
IsBackEdgeAnyVisited(colour) == colour # WHITE
IsBackEdge(colour) == colour = GRAY
\* main.py:78, 88   state[...] == WHITE
NeedsVisitNotGray(colour) == colour # GRAY
NeedsVisit(colour) == colour = WHITE

\* main.py:69   state[node_id] = GRAY
OnEnterBlack == BLACK
OnEnter == GRAY
\* main.py:83   state[node_id] = BLACK
OnExit == BLACK

RECURSIVE has_cycle(_, _, _), visit(_, _, _, _)
\* main.py:72-80: the loop over the neighbours, from the k-th on.
visit(graph, state, node_id, k) ==
    LET neighbors == DictGet(graph, node_id, <<>>) IN
    IF k > Len(neighbors) THEN [state |-> state, out |-> Ret(FALSE)]
    ELSE LET neighbor == neighbors[k] IN
         IF neighbor \notin DOMAIN state
         THEN [state |-> state, out |-> Raise("KeyError")]
         ELSE IF IsBackEdge(state[neighbor])
         THEN [state |-> state, out |-> Ret(TRUE)]
         ELSE IF NeedsVisit(state[neighbor])
         THEN LET r == has_cycle(graph, state, neighbor) IN
              IF r.out = Ret(FALSE) THEN visit(graph, r.state, node_id, k + 1)
              ELSE r
         ELSE visit(graph, state, node_id, k + 1)

\* main.py:63-84
has_cycle(graph, state, node_id) ==
    LET r == visit(graph, DictSet(state, node_id, OnEnter), node_id, 1) IN
    IF r.out = Ret(FALSE)
    THEN [state |-> DictSet(r.state, node_id, OnExit), out |-> Ret(FALSE)]
    ELSE r

RECURSIVE scan(_, _, _, _)
\* main.py:87-92: the loop over the nodes, from the i-th on.
scan(graph, state, nodes, i) ==
    IF i > Len(nodes) THEN Ret(TRUE)
    ELSE IF nodes[i].id \notin DOMAIN state THEN Raise("KeyError")
    ELSE IF NeedsVisit(state[nodes[i].id])
    THEN LET r == has_cycle(graph, state, nodes[i].id) IN
         IF r.out = Ret(TRUE) THEN Ret(FALSE)
         ELSE IF r.out = Ret(FALSE) THEN scan(graph, r.state, nodes, i + 1)
         ELSE r.out
    ELSE scan(graph, state, nodes, i + 1)

\* main.py:41-92
is_dag(nodes, edges) == scan(build_graph(nodes, edges), init_state(nodes), nodes, 1)

\* --------------------------------------------------------------- endpoints
\* main.py:116-124: json.loads, .get and the Node(**node) / Edge(**edge)
\* constructions; the exception they raise, or "none".
decode(pipeline) ==
    IF pipeline.json = "invalid" THEN "JSONDecodeError"
    ELSE IF pipeline.json = "nonobject" THEN "AttributeError"
    ELSE IF \/ \E i \in 1..Len(pipeline.nodes) : ~pipeline.nodes[i].valid
            \/ \E i \in 1..Len(pipeline.edges) : ~pipeline.edges[i].valid
    THEN "ValidationError"
    ELSE "none"

\* main.py:137-152: the except clauses of parse_pipeline.
parse_except_json_only(exc) ==
    IF exc = "JSONDecodeError"
    THEN [error |-> "Invalid JSON format", message |-> exc,
          num_nodes |-> 0, num_edges |-> 0, is_dag |-> FALSE]
    ELSE [raised |-> exc]
parse_except(exc) ==
    IF exc = "JSONDecodeError"
    THEN [error |-> "Invalid JSON format", message |-> exc,
          num_nodes |-> 0, num_edges |-> 0, is_dag |-> FALSE]
    ELSE [error |-> "Error parsing pipeline", message |-> exc,
          num_nodes |-> 0, num_edges |-> 0, is_dag |-> FALSE]

\* main.py:198-202
validate_except(exc) == [error |-> "Error validating pipeline", message |-> exc]

\* main.py:127-135
parse_body(nodes, edges, dag) ==
    [num_nodes |-> Len(nodes), num_edges |-> Len(edges), is_dag |-> dag]

\* list(s) of a Python set: some fixed order of its elements.
list(s) == CHOOSE q \in [1..Cardinality(s) -> s] : \A i, j \in DOMAIN q : q[i] = q[j] => i = j

\* main.py:175-177
node_types(nodes) ==
    [t \in {nodes[i].type : i \in 1..Len(nodes)} |->
        Cardinality({i \in 1..Len(nodes) : nodes[i].type = t})]
\* main.py:180-187
target_nodes(edges) == {edges[i].target : i \in 1..Len(edges)}
sources(nodes, edges) == list(NodeIds(nodes) \ target_nodes(edges))
sinks(nodes, edges) == list(target_nodes(edges) \ NodeIds(nodes))

\* main.py:170-196
validate_body(nodes, edges, dag) ==
    [num_nodes |-> Len(nodes), num_edges |-> Len(edges), is_dag |-> dag,
     node_types |-> node_types(nodes),
     source_nodes |-> sources(nodes, edges), sink_nodes |-> sinks(nodes, edges)]

\* main.py:101-152
parse_pipeline(pipeline) ==
    IF decode(pipeline) # "none" THEN parse_except(decode(pipeline))
    ELSE LET r == is_dag(pipeline.nodes, pipeline.edges) IN
         IF r.raised # "none" THEN parse_except(r.raised)
         ELSE parse_body(pipeline.nodes, pipeline.edges, r.value)

\* main.py:157-202
validate_pipeline(pipeline) ==
    IF decode(pipeline) # "none" THEN validate_except(decode(pipeline))
    ELSE LET r == is_dag(pipeline.nodes, pipeline.edges) IN
         IF r.raised # "none" THEN validate_except(r.raised)
         ELSE validate_body(pipeline.nodes, pipeline.edges, r.value)

\* ------------------------------------------------------------------ state
VARIABLES
    \* functional view
    pipeline,    \* the submitted form field
    endpoint,    \* "none" until an endpoint is called, then its name
    response,    \* the body the endpoint returned
    \* stepwise view, one entry per request thread
    call,        \* the endpoint called and its form field
    pc,          \* where the thread is in its handler
    graphs,      \* is_dag's local graph, per activation
    states,      \* is_dag's local state, per activation
    stack,       \* the has_cycle activations: <<[node_id, k], ...>>, innermost last
    at,          \* index of the loop over nodes at main.py:87
    flight,      \* what the has_cycle activations are passing up: True or an exception
    result,      \* what is_dag returned or raised
    resp,        \* the body the handler returned
    entered      \* how often has_cycle was called on each id (history)

fvars == <<pipeline, endpoint, response>>
svars == <<call, pc, graphs, states, stack, at, flight, result, resp, entered>>
vars == <<fvars, svars>>

Reqs == {1, 2}
Pending == [pending |-> TRUE]
NoCall == [endpoint |-> "none", pipeline |-> [json |-> "invalid", nodes |-> <<>>, edges |-> <<>>]]
Empty == [x \in {} |-> 0]

\* The stepwise variables of a thread that has not been called.
Idle ==
    /\ graphs = [r \in Reqs |-> Empty]
    /\ states = [r \in Reqs |-> Empty]
    /\ stack = [r \in Reqs |-> <<>>]
    /\ at = [r \in Reqs |-> 0]
    /\ flight = [r \in Reqs |-> Pending]
    /\ result = [r \in Reqs |-> Pending]
    /\ resp = [r \in Reqs |-> Pending]
    /\ entered = [r \in Reqs |-> [i \in Ids |-> 0]]

\* --------------------------------------------------------- functional view
Init ==
    /\ \/ pipeline \in WellFormed
       \/ pipeline \in OddRecords
       \/ pipeline \in NotObjects
    /\ endpoint = "none"
    /\ response = Pending
    /\ call = [r \in Reqs |-> NoCall]
    /\ pc = [r \in Reqs |-> "absent"]
    /\ Idle

Parse ==
    /\ endpoint = "none"
    /\ endpoint' = "parse"
    /\ response' = parse_pipeline(pipeline)
    /\ UNCHANGED <<pipeline, svars>>

Validate ==
    /\ endpoint = "none"
    /\ endpoint' = "validate"
    /\ response' = validate_pipeline(pipeline)
    /\ UNCHANGED <<pipeline, svars>>

Next == Parse \/ Validate

Spec == Init /\ [][Next]_vars

\* ----------------------------------------------------------- stepwise view
\* graph and state are locals of is_dag (main.py:53, 61): each call has
\* its own.
SharedFrame(r) == 1
FrameOf(r) == r

Nodes(r) == call[r].pipeline.nodes
Edges(r) == call[r].pipeline.edges
Graph(r) == graphs[FrameOf(r)]
State(r) == states[FrameOf(r)]
Top(r) == stack[r][Len(stack[r])]
Neighbors(r) == DictGet(Graph(r), Top(r).node_id, <<>>)

\* main.py:198-202 / 137-152, by endpoint
except_body(ep, exc) == IF ep = "parse" THEN parse_except(exc) ELSE validate_except(exc)
\* main.py:131-135 / 189-196, by endpoint
success_body(ep, nodes, edges, dag) ==
    IF ep = "parse" THEN parse_body(nodes, edges, dag) ELSE validate_body(nodes, edges, dag)

\* main.py:116-124, 53-61: decode the form field, build graph and state.
Start(r) ==
    /\ pc[r] = "start"
    /\ IF decode(call[r].pipeline) # "none"
       THEN /\ resp' = [resp EXCEPT ![r] = except_body(call[r].endpoint, decode(call[r].pipeline))]
            /\ pc' = [pc EXCEPT ![r] = "done"]
            /\ UNCHANGED <<graphs, states, at>>
       ELSE /\ graphs' = [graphs EXCEPT ![FrameOf(r)] = build_graph(Nodes(r), Edges(r))]
            /\ states' = [states EXCEPT ![FrameOf(r)] = init_state(Nodes(r))]
            /\ at' = [at EXCEPT ![r] = 1]
            /\ pc' = [pc EXCEPT ![r] = "scan"]
            /\ UNCHANGED resp
    /\ UNCHANGED <<fvars, call, stack, flight, result, entered>>

\* main.py:87-92: one turn of the loop over the nodes; has_cycle is entered
\* (main.py:69) for a WHITE node.
Scan(r) ==
    /\ pc[r] = "scan"
    /\ IF at[r] > Len(Nodes(r))
       THEN /\ result' = [result EXCEPT ![r] = Ret(TRUE)]
            /\ pc' = [pc EXCEPT ![r] = "return"]
            /\ UNCHANGED <<states, stack, at, entered>>
       ELSE LET id == Nodes(r)[at[r]].id IN
            IF id \notin DOMAIN State(r)
            THEN /\ result' = [result EXCEPT ![r] = Raise("KeyError")]
                 /\ pc' = [pc EXCEPT ![r] = "return"]
                 /\ UNCHANGED <<states, stack, at, entered>>
            ELSE IF NeedsVisit(State(r)[id])
            THEN /\ states' = [states EXCEPT ![FrameOf(r)] = DictSet(@, id, OnEnter)]
                 /\ stack' = [stack EXCEPT ![r] = <<[node_id |-> id, k |-> 1]>>]
                 /\ entered' = [entered EXCEPT ![r][id] = @ + 1]
                 /\ pc' = [pc EXCEPT ![r] = "dfs"]
                 /\ UNCHANGED <<at, result>>
            ELSE /\ at' = [at EXCEPT ![r] = @ + 1]
                 /\ UNCHANGED <<states, stack, entered, pc, result>>
    /\ UNCHANGED <<fvars, call, graphs, flight, resp>>

\* main.py:72-80: the innermost has_cycle looks at its next neighbour.  A
\* GRAY neighbour makes it return True (main.py:75); an id that is no key
\* of state raises KeyError (main.py:74).
Visit(r) ==
    /\ pc[r] = "dfs"
    /\ Top(r).k <= Len(Neighbors(r))
    /\ LET neighbor == Neighbors(r)[Top(r).k] IN
       IF neighbor \notin DOMAIN State(r)
       THEN /\ flight' = [flight EXCEPT ![r] = Raise("KeyError")]
            /\ pc' = [pc EXCEPT ![r] = "unwind"]
            /\ UNCHANGED <<states, stack, entered>>
       ELSE IF IsBackEdge(State(r)[neighbor])
       THEN /\ flight' = [flight EXCEPT ![r] = Ret(TRUE)]
            /\ pc' = [pc EXCEPT ![r] = "unwind"]
            /\ UNCHANGED <<states, stack, entered>>
       ELSE IF NeedsVisit(State(r)[neighbor])
       THEN /\ states' = [states EXCEPT ![FrameOf(r)] = DictSet(@, neighbor, OnEnter)]
            /\ stack' = [stack EXCEPT ![r] = Append(@, [node_id |-> neighbor, k |-> 1])]
            /\ entered' = [entered EXCEPT ![r][neighbor] = @ + 1]
            /\ UNCHANGED <<pc, flight>>
       ELSE /\ stack' = [stack EXCEPT ![r][Len(stack[r])].k = @ + 1]
            /\ UNCHANGED <<states, entered, pc, flight>>
    /\ UNCHANGED <<fvars, call, graphs, at, result, resp>>

\* main.py:75, 79-80, 89-90: the innermost open activation returns True, or
\* lets the exception pass; its node stays GRAY.  When the outermost one
\* has done so, is_dag returns False (main.py:90) or raises.
Unwind(r) ==
    /\ pc[r] = "unwind"
    /\ stack' = [stack EXCEPT ![r] = SubSeq(@, 1, Len(@) - 1)]
    /\ IF Len(stack[r]) = 1
       THEN /\ result' = [result EXCEPT ![r] =
                    IF flight[r] = Ret(TRUE) THEN Ret(FALSE) ELSE flight[r]]
            /\ pc' = [pc EXCEPT ![r] = "return"]
       ELSE UNCHANGED <<result, pc>>
    /\ UNCHANGED <<fvars, call, graphs, states, at, flight, resp, entered>>

\* main.py:82-84: the innermost has_cycle has seen all its neighbours; it
\* marks its node BLACK and returns False to its caller, which goes on
\* with its next neighbour (main.py:72) or its next node (main.py:87).
Finish(r) ==
    /\ pc[r] = "dfs"
    /\ Top(r).k > Len(Neighbors(r))
    /\ states' = [states EXCEPT ![FrameOf(r)] = DictSet(@, Top(r).node_id, OnExit)]
    /\ IF Len(stack[r]) = 1
       THEN /\ stack' = [stack EXCEPT ![r] = <<>>]
            /\ at' = [at EXCEPT ![r] = @ + 1]
            /\ pc' = [pc EXCEPT ![r] = "scan"]
       ELSE /\ stack' = [stack EXCEPT ![r] =
                    [SubSeq(@, 1, Len(@) - 1) EXCEPT ![Len(@) - 1].k = @ + 1]]
            /\ UNCHANGED <<at, pc>>
    /\ UNCHANGED <<fvars, call, graphs, flight, result, resp, entered>>

\* main.py:127-135, 170-196, and the except clauses: the body returned.
Respond(r) ==
    /\ pc[r] = "return"
    /\ resp' = [resp EXCEPT ![r] =
            IF result[r].raised # "none"
            THEN except_body(call[r].endpoint, result[r].raised)
            ELSE success_body(call[r].endpoint, Nodes(r), Edges(r), result[r].value)]
    /\ pc' = [pc EXCEPT ![r] = "done"]
    /\ UNCHANGED <<fvars, call, graphs, states, stack, at, flight, result, entered>>

Step ==
    \E r \in Reqs : Start(r) \/ Scan(r) \/ Visit(r) \/ Unwind(r) \/ Finish(r) \/ Respond(r)

StepMaxNodes == 3    \* longest node array of a single traced request
StepMaxEdges == 2    \* longest edge array of a single traced request
ConcMaxNodes == 1    \* longest node array of two concurrent requests
ConcMaxEdges == 1    \* longest edge array of two concurrent requests

Endpoints == {"parse", "validate"}
StepPipelines ==
    {[json |-> "object", nodes |-> n, edges |-> e] :
        n \in SeqsUpTo(WellNodes, StepMaxNodes), e \in SeqsUpTo(WellEdges, StepMaxEdges)}
ConcNodes == {n \in WellNodes : n.id \in OddIds}
ConcEdges == {e \in WellEdges : e.source \in OddIds /\ e.target \in OddIds}
ConcPipelines ==
    {[json |-> "object", nodes |-> n, edges |-> e] :
        n \in SeqsUpTo(ConcNodes, ConcMaxNodes), e \in SeqsUpTo(ConcEdges, ConcMaxEdges)}

FIdle ==
    /\ pipeline = NoCall.pipeline
    /\ endpoint = "none"
    /\ response = Pending

\* One request, traced statement by statement.  The traversal is the same
\* for both endpoints; the long arrays are traced through Parse.
InitDFS ==
    /\ FIdle
    /\ \E c \in ([endpoint : {"parse"}, pipeline : StepPipelines]
                    \cup [endpoint : Endpoints, pipeline : ConcPipelines \cup OddRecords \cup NotObjects]) :
            call = [r \in Reqs |-> IF r = 1 THEN c ELSE NoCall]
    /\ pc = [r \in Reqs |-> IF r = 1 THEN "start" ELSE "absent"]
    /\ Idle

SpecDFS == InitDFS /\ [][Step]_vars
\* A thread that can take a step takes it.
FairDFS == SpecDFS /\ WF_vars(Step)

\* Two requests served by two threads, their steps interleaved: a Parse or
\* a Validate call next to a Validate call.
InitConc ==
    /\ FIdle
    /\ \E c1 \in [endpoint : Endpoints, pipeline : ConcPipelines] :
        \E c2 \in [endpoint : {"validate"}, pipeline : ConcPipelines] :
            call = [r \in Reqs |-> IF r = 1 THEN c1 ELSE c2]
    /\ pc = [r \in Reqs |-> "start"]
    /\ Idle

SpecConc == InitConc /\ [][Step]_vars

\* ================================================================== claims
Called == endpoint # "none"
WellTyped == decode(pipeline) = "none"
Declared == NodeIds(pipeline.nodes)
EdgeSet == {pipeline.edges[i] : i \in 1..Len(pipeline.edges)}
\* Some node reaches itself over one or more edges: a closed walk exists.
Cyclic(E) ==
    \E n \in 1..Cardinality(Ids) : \E c \in [1..n -> Ids] :
        \A i \in 1..n : \E e \in E : e.source = c[i] /\ e.target = c[(i % n) + 1]
Reported(key) == key \in DOMAIN response

\* C1: when every edge's source and target are declared node ids, is_dag
\* is true exactly when the graph has no cycle.
C1_IsDagIffAcyclic ==
    (Called /\ WellTyped /\ \A e \in EdgeSet : e.source \in Declared /\ e.target \in Declared)
        => /\ Reported("is_dag") /\ ~Reported("error")
           /\ response.is_dag = ~Cyclic(EdgeSet)
\* A path a -> b closed by the back-edge b -> a, reported non-DAG, and a
\* path a -> b -> ... reported DAG.
C1_Witness ==
    /\ Called /\ WellTyped
    /\ Cardinality(Declared) = Len(pipeline.nodes)
    /\ Len(pipeline.edges) = 2
    /\ pipeline.edges[1].source # pipeline.edges[1].target
    /\ pipeline.edges[2].source = pipeline.edges[1].target
    /\ pipeline.edges[2].target = pipeline.edges[1].source
    /\ \A e \in EdgeSet : e.source \in Declared /\ e.target \in Declared
    /\ Reported("is_dag") /\ response.is_dag = FALSE

\* An edge from a declared node to an id that is no declared node.
Dangling(e) == e.source \in Declared /\ e.target \notin Declared
\* C2: an edge with a declared source and an undeclared target is a no-op
\* for the cycle check: no fault, and the result is that of the graph
\* without such edges.
C2_DanglingTargetIsNoOp ==
    (Called /\ WellTyped /\ \E e \in EdgeSet : Dangling(e))
        => /\ ~Reported("error") /\ Reported("is_dag")
           /\ response.is_dag =
                ~Cyclic({e \in EdgeSet : e.source \in Declared /\ e.target \in Declared})

\* C3 as stated: a submission with an edge whose source equals its target
\* is never reported as a DAG, declared id or not.
C3_SelfLoopNeverDag ==
    (Called /\ WellTyped /\ \E e \in EdgeSet : e.source = e.target)
        => (Reported("is_dag") => response.is_dag = FALSE)
\* C3 amended: a self-loop on a declared node id is never reported as a
\* DAG; Parse reports is_dag = false.
C3_DeclaredSelfLoopNeverDag ==
    (Called /\ WellTyped /\ \E e \in EdgeSet : e.source = e.target /\ e.source \in Declared)
        => /\ Reported("is_dag") => response.is_dag = FALSE
           /\ endpoint = "parse" => Reported("is_dag")
C3_Witness ==
    /\ endpoint = "parse" /\ WellTyped
    /\ \E e \in EdgeSet : e.source = e.target /\ e.source \in Declared
    /\ Len(pipeline.nodes) >= 2
    /\ ~Reported("error") /\ response.is_dag = FALSE

\* C4: Parse reports the lengths of the submitted arrays for every
\* well-formed submission, dangling edges included.
C4_ParseCounts ==
    (endpoint = "parse" /\ WellTyped)
        => /\ response.num_nodes = Len(pipeline.nodes)
           /\ response.num_edges = Len(pipeline.edges)

\* C5: for two distinct declared ids a, b and the single edge a -> b,
\* Validate returns 2, 1, true, [a] and [b].
C5_SingleEdgeReport ==
    (/\ endpoint = "validate" /\ WellTyped
     /\ Len(pipeline.nodes) = 2 /\ Len(pipeline.edges) = 1
     /\ pipeline.nodes[1].id # pipeline.nodes[2].id
     /\ pipeline.edges[1].source = pipeline.nodes[1].id
     /\ pipeline.edges[1].target = pipeline.nodes[2].id)
        => /\ ~Reported("error")
           /\ response.num_nodes = 2 /\ response.num_edges = 1
           /\ response.is_dag = TRUE
           /\ response.source_nodes = <<pipeline.nodes[1].id>>
           /\ response.sink_nodes = <<pipeline.nodes[2].id>>

\* The call fails: in decoding, in record validation or in the cycle check.
Fails == ~WellTyped \/ is_dag(pipeline.nodes, pipeline.edges).raised # "none"
\* C6: no failure leaves a handler: Parse answers a failure with an error
\* body of zeroed metrics, Validate with error and message alone, and no
\* body has both an error key and is_dag = true.
C6_NoFailureEscapes ==
    Called =>
        /\ ~Reported("raised")
        /\ (Fails /\ endpoint = "parse") =>
                /\ DOMAIN response = {"error", "message", "num_nodes", "num_edges", "is_dag"}
                /\ response.num_nodes = 0 /\ response.num_edges = 0
                /\ response.is_dag = FALSE
        /\ (Fails /\ endpoint = "validate") => DOMAIN response = {"error", "message"}
        /\ ~Fails => ~Reported("error")
        /\ (Reported("error") /\ Reported("is_dag")) => response.is_dag = FALSE
\* A failure inside the cycle check, answered by Parse.
C6_Witness ==
    /\ endpoint = "parse" /\ WellTyped /\ Fails
    /\ Reported("error") /\ response.message = "KeyError"

Perms(q) ==
    {[i \in 1..Len(q) |-> q[f[i]]] :
        f \in {g \in [1..Len(q) -> 1..Len(q)] : \A i, j \in 1..Len(q) : g[i] = g[j] => i = j}}
\* C7: every permutation of the node list and of the edge list gives the
\* same outcome of is_dag, the same boolean or the same failure.
C7_OrderIndependent ==
    (Called /\ WellTyped)
        => \A n \in Perms(pipeline.nodes) : \A e \in Perms(pipeline.edges) :
              is_dag(n, e) = is_dag(pipeline.nodes, pipeline.edges)

\* What a request answers when it is served alone.
Alone(c) ==
    IF c.endpoint = "parse" THEN parse_pipeline(c.pipeline) ELSE validate_pipeline(c.pipeline)
Unmoved(r) == pc'[r] = pc[r] /\ stack'[r] = stack[r] /\ at'[r] = at[r]
C8_Responses ==
    /\ \A r \in Reqs : pc[r] = "done" => resp[r] = Alone(call[r])
    /\ (\A r \in Reqs : pc[r] = "done") /\ call[1] = call[2] => resp[1] = resp[2]
C8_OwnMaps ==
    \A r \in Reqs : Unmoved(r) => graphs'[r] = graphs[r] /\ states'[r] = states[r]
\* C8: under every interleaving each request answers what it answers
\* alone, and a step of one request leaves the graph and state maps of
\* the other as they were.
C8_NoInterference == []C8_Responses /\ [][C8_OwnMaps]_vars
\* Both requests are inside the traversal at once.
C8_Witness ==
    /\ pc[1] = "dfs" /\ pc[2] = "dfs"
    /\ call[1].pipeline # call[2].pipeline

Path(r) == {stack[r][i].node_id : i \in 1..Len(stack[r])}
Coloured(r, c) == {id \in DOMAIN states[r] : states[r][id] = c}
C9_ColourMoves ==
    \A id \in DOMAIN states[1] :
        /\ id \in DOMAIN states'[1]
        /\ \/ states'[1][id] = states[1][id]
           \/ states[1][id] = WHITE /\ states'[1][id] = GRAY
           \/ states[1][id] = GRAY /\ states'[1][id] = BLACK
C9_Bounded ==
    /\ \A id \in Ids : entered[1][id] <= 1
    /\ Len(stack[1]) <= Cardinality(NodeIds(Nodes(1)))
\* C9: the cycle check ends; colours only move WHITE -> GRAY -> BLACK,
\* has_cycle is called at most once per distinct id, and no more
\* activations are open than there are distinct declared ids.
C9_Terminates == [][C9_ColourMoves]_vars /\ []C9_Bounded /\ <>(pc[1] = "done")
\* The node list repeats an id and the traversal is as deep as there are
\* distinct ids.
C9_Witness ==
    /\ pc[1] = "dfs"
    /\ Len(Nodes(1)) > Cardinality(NodeIds(Nodes(1)))
    /\ Len(stack[1]) = Cardinality(NodeIds(Nodes(1)))
    /\ Len(stack[1]) >= 2

Successors(r, id) == {graphs[r][id][i] : i \in 1..Len(graphs[r][id])} \cap DOMAIN states[r]
C10_State ==
    /\ pc[1] \in {"scan", "dfs"} => Coloured(1, GRAY) = Path(1)
    /\ result[1] = Ret(TRUE) => \A id \in NodeIds(Nodes(1)) : states[1][id] = BLACK
    /\ flight[1] = Ret(TRUE) =>
          /\ pc[1] = "return" => result[1] = Ret(FALSE)
          /\ pc[1] = "done" => resp[1].is_dag = FALSE
C10_Step ==
    /\ \A id \in DOMAIN states[1] :
          (states[1][id] # BLACK /\ states'[1][id] = BLACK)
              => \A n \in Successors(1, id) : states'[1][n] = BLACK
    /\ (/\ pc[1] = "dfs" /\ Top(1).k <= Len(Neighbors(1))
        /\ Neighbors(1)[Top(1).k] \in Coloured(1, GRAY))
          => flight'[1] = Ret(TRUE) /\ pc'[1] = "unwind"
    /\ flight[1] = Ret(TRUE) => states' = states /\ flight' = flight
\* C10: at every step of the traversal the GRAY nodes are the nodes of the
\* current path; a node turns BLACK only when its declared successors are
\* BLACK; once a GRAY successor is met no colour changes again and the
\* result is non-DAG; a true result leaves every declared node BLACK.
C10_Traversal == []C10_State /\ [][C10_Step]_vars
\* Two activations open and one node already finished.
C10_Witness ==
    /\ pc[1] = "dfs" /\ Len(stack[1]) >= 2
    /\ Coloured(1, BLACK) # {}

====
